---- MODULE Spec2Model ----
(***************************************************************************)
(* The chat page of the listing application (pages/Chat.tsx): the React    *)
(* state of the page, the async handler sendMessage with its suspension    *)
(* points (getSession, fetch, reader.read), and the line/JSON decoding of  *)
(* the streamed response body.                                             *)
(*                                                                         *)
(* Text is a sequence of characters (one-character strings).  The response *)
(* body is a sequence of bytes: an ASCII byte is written as its character, *)
(* and the two bytes of the UTF-8 encoding of U+00E9 are the tokens        *)
(* LeadByte and ContByte.  Streams are spelled over the characters that    *)
(* occur in FrameLine below; the JSON reader covers objects, arrays,       *)
(* strings without escapes and the literals null, true and false.          *)
(***************************************************************************)
EXTENDS Naturals, Sequences, FiniteSets, TLC

\* ------------------------------------------------------------------ text

\* A string literal as a sequence of characters.
Chars(s) == [i \in 1..Len(s) |-> SubSeq(s, i, i)]

NL == "\n"
CR == "\r"

LeadByte == "xC3"
ContByte == "xA9"
EAcute == "U+00E9"
Replacement == "U+FFFD"

\* String.prototype.slice(from) and slice(0, to) with 0-based arguments.
SliceFrom(s, from) == SubSeq(s, from + 1, Len(s))
SliceTo(s, to) == SubSeq(s, 1, to)

\* String.prototype.indexOf("\n"): 0-based index of the first newline, or
\* Len(s) when absent (the code's -1).
NoIndex(s) == Len(s)
IndexOfNewline(s) ==
  IF \E i \in 1..Len(s) : s[i] = NL
  THEN (CHOOSE i \in 1..Len(s) : s[i] = NL /\ \A j \in 1..(i - 1) : s[j] # NL) - 1
  ELSE NoIndex(s)
HasNewline(s) == \E i \in 1..Len(s) : s[i] = NL

StartsWith(s, p) == Len(s) >= Len(p) /\ SubSeq(s, 1, Len(p)) = p
EndsWith(s, p) == Len(s) >= Len(p) /\ SubSeq(s, Len(s) - Len(p) + 1, Len(s)) = p

\* String.prototype.trim(): white space removed at both ends.
WhiteSpace == {" ", "\t", NL, CR}
RECURSIVE TrimStart(_)
TrimStart(s) ==
  IF s # <<>> /\ Head(s) \in WhiteSpace THEN TrimStart(Tail(s)) ELSE s
RECURSIVE TrimEnd(_)
TrimEnd(s) ==
  IF s # <<>> /\ s[Len(s)] \in WhiteSpace THEN TrimEnd(SubSeq(s, 1, Len(s) - 1)) ELSE s
Trim(s) == TrimEnd(TrimStart(s))

\* TextDecoder.decode(value, {stream: true}): the bytes held back from the
\* previous call followed by the new ones are decoded; an incomplete
\* multi-byte sequence at the end is held back for the next call.  A lead
\* byte with its continuation byte is one code point, a lead byte followed
\* by anything else and a continuation byte without a lead byte are
\* replaced.
Consumed == "consumed"
DecodeAt(bytes, i) ==
  IF bytes[i] = LeadByte
  THEN IF i = Len(bytes) THEN Consumed
       ELSE IF bytes[i + 1] = ContByte THEN EAcute ELSE Replacement
  ELSE IF bytes[i] = ContByte
  THEN IF i > 1 /\ bytes[i - 1] = LeadByte THEN Consumed ELSE Replacement
  ELSE bytes[i]
Utf8Decode(bytes) ==
  IF \A i \in 1..Len(bytes) : bytes[i] \notin {LeadByte, ContByte}
  THEN [text |-> bytes, held |-> <<>>]
  ELSE
  [text |-> SelectSeq([i \in 1..Len(bytes) |-> DecodeAt(bytes, i)],
                      LAMBDA c : c # Consumed),
   held |-> IF bytes # <<>> /\ bytes[Len(bytes)] = LeadByte THEN <<LeadByte>> ELSE <<>>]

\* ------------------------------------------------------------------ JSON

\* JavaScript values: t is the type tag, v the payload (characters of a
\* string, elements of an array, members of an object).
Undefined == [t |-> "undefined", v |-> <<>>]
Null == [t |-> "null", v |-> <<>>]
True == [t |-> "true", v |-> <<>>]
False == [t |-> "false", v |-> <<>>]
Str(cs) == [t |-> "str", v |-> cs]
Arr(es) == [t |-> "arr", v |-> es]
Obj(ms) == [t |-> "obj", v |-> ms]

JsonWs == {" ", "\t", NL, CR}
Fail == [ok |-> FALSE, val |-> Undefined, pos |-> 0]
Ok(val, pos) == [ok |-> TRUE, val |-> val, pos |-> pos]

RECURSIVE SkipWs(_, _)
SkipWs(s, i) == IF i <= Len(s) /\ s[i] \in JsonWs THEN SkipWs(s, i + 1) ELSE i

LiteralAt(s, i, lit) ==
  i + Len(lit) - 1 <= Len(s) /\ SubSeq(s, i, i + Len(lit) - 1) = lit

\* The characters of a string, from the one after the opening quote.
RECURSIVE ParseString(_, _, _)
ParseString(s, i, acc) ==
  IF i > Len(s) THEN Fail
  ELSE IF s[i] = "\"" THEN Ok(Str(acc), i + 1)
  ELSE IF s[i] \in {"\\", NL, CR, "\t"} THEN Fail
  ELSE ParseString(s, i + 1, Append(acc, s[i]))

RECURSIVE ParseValue(_, _)
RECURSIVE ParseElements(_, _, _)
RECURSIVE ParseMembers(_, _, _)

\* A value starting at position i (white space already skipped).
ParseValue(s, i) ==
  IF i > Len(s) THEN Fail
  ELSE IF s[i] = "{"
  THEN LET j == SkipWs(s, i + 1)
       IN IF j <= Len(s) /\ s[j] = "}" THEN Ok(Obj(<<>>), j + 1)
          ELSE ParseMembers(s, j, <<>>)
  ELSE IF s[i] = "["
  THEN LET j == SkipWs(s, i + 1)
       IN IF j <= Len(s) /\ s[j] = "]" THEN Ok(Arr(<<>>), j + 1)
          ELSE ParseElements(s, j, <<>>)
  ELSE IF s[i] = "\"" THEN ParseString(s, i + 1, <<>>)
  ELSE IF LiteralAt(s, i, Chars("null")) THEN Ok(Null, i + 4)
  ELSE IF LiteralAt(s, i, Chars("true")) THEN Ok(True, i + 4)
  ELSE IF LiteralAt(s, i, Chars("false")) THEN Ok(False, i + 5)
  ELSE Fail

\* The elements of a non-empty array, from the first element.
ParseElements(s, i, acc) ==
  LET e == ParseValue(s, i)
      j == SkipWs(s, e.pos)
  IN IF ~e.ok \/ j > Len(s) THEN Fail
     ELSE IF s[j] = "]" THEN Ok(Arr(Append(acc, e.val)), j + 1)
     ELSE IF s[j] = "," THEN ParseElements(s, SkipWs(s, j + 1), Append(acc, e.val))
     ELSE Fail

\* The members of a non-empty object, from the first key.
ParseMembers(s, i, acc) ==
  IF i > Len(s) \/ s[i] # "\"" THEN Fail
  ELSE LET k == ParseString(s, i + 1, <<>>)
           c == SkipWs(s, k.pos)
       IN IF ~k.ok \/ c > Len(s) \/ s[c] # ":" THEN Fail
          ELSE LET e == ParseValue(s, SkipWs(s, c + 1))
                   j == SkipWs(s, e.pos)
                   ms == Append(acc, [k |-> k.val.v, v |-> e.val])
               IN IF ~e.ok \/ j > Len(s) THEN Fail
                  ELSE IF s[j] = "}" THEN Ok(Obj(ms), j + 1)
                  ELSE IF s[j] = "," THEN ParseMembers(s, SkipWs(s, j + 1), ms)
                  ELSE Fail

\* JSON.parse(text): ok is FALSE where it throws SyntaxError.
JSONParse(s) ==
  LET r == ParseValue(s, SkipWs(s, 1))
  IN IF r.ok /\ SkipWs(s, r.pos) = Len(s) + 1 THEN r ELSE Fail

\* obj[key] for a string key: the last member of that name wins.
GetProp(val, key) ==
  IF val.t = "obj" /\ \E i \in 1..Len(val.v) : val.v[i].k = key
  THEN val.v[CHOOSE i \in 1..Len(val.v) :
               val.v[i].k = key /\ \A j \in (i + 1)..Len(val.v) : val.v[j].k # key].v
  ELSE Undefined

\* val[0]
GetIndex0(val) ==
  IF val.t = "arr" THEN (IF val.v = <<>> THEN Undefined ELSE val.v[1])
  ELSE IF val.t = "str" THEN (IF val.v = <<>> THEN Undefined ELSE Str(<<val.v[1]>>))
  ELSE GetProp(val, <<"0">>)

Nullish(val) == val.t \in {"undefined", "null"}

\* parsed.choices?.[0]?.delta?.content; throws is TRUE where the first,
\* unguarded property access raises TypeError (parsed is null).
ContentOf(parsed) ==
  IF parsed.t = "null" THEN [throws |-> TRUE, val |-> Undefined]
  ELSE LET choices == GetProp(parsed, Chars("choices"))
           first == IF Nullish(choices) THEN Undefined ELSE GetIndex0(choices)
           delta == IF Nullish(first) THEN Undefined ELSE GetProp(first, Chars("delta"))
           content == IF Nullish(delta) THEN Undefined ELSE GetProp(delta, Chars("content"))
       IN [throws |-> FALSE, val |-> content]

\* if (content)
Truthy(val) == val.t \in {"true", "obj", "arr"} \/ (val.t = "str" /\ val.v # <<>>)

\* The string that `assistantMessage += content` appends.
RECURSIVE ToStr(_)
RECURSIVE JoinElements(_)
ToStr(val) ==
  IF val.t = "str" THEN val.v
  ELSE IF val.t = "arr" THEN JoinElements(val.v)
  ELSE IF val.t = "obj" THEN Chars("[object Object]")
  ELSE Chars(val.t)
JoinElements(es) ==
  IF es = <<>> THEN <<>>
  ELSE LET h == IF Nullish(Head(es)) THEN <<>> ELSE ToStr(Head(es))
       IN IF Len(es) = 1 THEN h ELSE h \o <<",">> \o JoinElements(Tail(es))

\* ------------------------------------------------------------------ bounds

\* Accepted submissions per session.
MaxTurns == 2
\* Lines per response body.
MaxFrames == 2
\* Requests the relay receives.
MaxRequests == 2
\* Requests the enquiry functions receive.
MaxCalls == 2

\* ------------------------------------------------------------------ page state

VARIABLES
  messages,          \* useState<Message[]>: the transcript
  input,             \* useState(""): the text of the input field
  isLoading,         \* useState(false): the pending flag
  pc,                \* where the running sendMessage is suspended
  userMessage,       \* sendMessage's local
  assistantMessage,  \* sendMessage's local
  textBuffer,        \* sendMessage's local
  held,              \* bytes the TextDecoder holds back
  wire,              \* bytes of the response body not yet read
  split,             \* a chunk of this response ended inside a line or a
                     \* character: text was held back and more bytes followed
  sent,              \* the lines of the response body being read
  pre,               \* the transcript when the running submission was made
  toast,             \* title of the notice the running submission showed
  requests,          \* relay requests issued so far
  submits,           \* submissions accepted so far
  lastOp,            \* the handler step taken last, with its outcome
  relayPc,           \* relay: where the handling of the current request is
  credential,        \* relay: the bearer credential of the current request
  upstreamCalls,     \* relay: upstream requests made for the current request
  upstreamResp,      \* relay: what the upstream provider answered
  answered,          \* relay: the status answered to the caller
  upstream,          \* relay: bytes of the upstream body not yet forwarded
  forwarded,         \* relay: bytes of the body sent to the caller
  served,            \* relay: requests received so far
  fnCall,            \* functions: the request being handled and how far it got
  fnCalls,           \* functions: requests received so far
  enquiries,         \* functions: the enquiries table, by id
  enquiry_messages,  \* functions: the rows inserted into enquiry_messages
  notifications      \* functions: the rows inserted into notifications

vars == <<messages, input, isLoading, pc, userMessage, assistantMessage,
          textBuffer, held, wire, split, sent, pre, toast, requests, submits,
          lastOp, relayPc, credential, upstreamCalls, upstreamResp, answered,
          upstream, forwarded, served, fnCall, fnCalls, enquiries,
          enquiry_messages, notifications>>

\* The state of the relay.
Relay ==
  <<relayPc, credential, upstreamCalls, upstreamResp, answered, upstream,
    forwarded, served>>

\* The state of the enquiry functions and of the tables they write.
Edge == <<fnCall, fnCalls, enquiries, enquiry_messages, notifications>>

User(content) == [role |-> "user", content |-> content]
Assistant(content) == [role |-> "assistant", content |-> content]

\* ------------------------------------------------------------------ inputs

\* What the user may have typed.
Inputs == {Chars(""), Chars(" "), Chars("a"), Chars(" b ")}

\* The lines a response body is made of.
FrameKinds ==
  {"deltaX", "deltaE", "role", "empty", "done", "comment", "blank", "event",
   "head", "tail", "null"}

DeltaLine(text) ==
  Chars("data: {\"choices\":[{\"delta\":{\"content\":\"") \o text \o Chars("\"}}]}")

\* The bytes of a line, without its newline.
FrameLine(kind) ==
  CASE kind = "deltaX" -> DeltaLine(<<"X">>)
    [] kind = "deltaE" -> DeltaLine(<<LeadByte, ContByte>>) \o <<CR>>
    [] kind = "role" -> Chars("data: {\"choices\":[{\"delta\":{\"role\":\"assistant\"}}]}")
    [] kind = "empty" -> Chars("data: {\"choices\":[]}")
    [] kind = "done" -> Chars("data: [DONE]")
    [] kind = "comment" -> Chars(": ping")
    [] kind = "blank" -> <<>>
    [] kind = "event" -> Chars("event: x")
    [] kind = "head" -> Chars("data: {\"choices\":[{\"delta\"")
    [] kind = "tail" -> Chars(":{\"content\":\"X\"}}]}")
    [] kind = "null" -> Chars("data: null")
    [] kind = "nospace" -> Chars("data:{\"choices\":[{\"delta\":{\"content\":\"X\"}}]}")

\* The bytes of a response body: every line with its newline.  The body
\* may end anywhere, so a body whose last line is not terminated is a
\* prefix of one of these.
RECURSIVE Body(_)
Body(kinds) ==
  IF kinds = <<>> THEN <<>> ELSE FrameLine(Head(kinds)) \o <<NL>> \o Body(Tail(kinds))

\* Bodies of up to MaxFrames lines, and longer ones: two deltas before
\* [DONE], a delta repeated, lines after [DONE], a comment and a blank line
\* around a delta, a delta without the space after 'data:'.
LongStreams ==
  {<<"deltaX", "deltaE", "done">>, <<"deltaE", "deltaX", "done">>,
   <<"deltaX", "deltaX", "done">>, <<"deltaX", "done", "deltaE">>,
   <<"comment", "deltaX", "blank", "done">>, <<"nospace", "deltaE", "done">>}
Streams == UNION {[1..n -> FrameKinds] : n \in 0..MaxFrames} \cup LongStreams

\* The bodies of the multi-turn session.
SessionStreams == {<<"deltaX", "done">>}

NoStream == <<>>

\* Response statuses of the relay; Response.ok is status in 200..299.
Statuses == {200, 402, 429, 500}
RespOk(status) == status \in 200..299

\* ------------------------------------------------------------------ sendMessage

\* Variants of the definitions below, each with one slip.
RejectsNothing(inp, loading) == FALSE
RejectsUntrimmed(inp, loading) == inp = <<>> \/ loading
RollbackKeeps(prev) == prev
RollbackTwo(prev) == IF Len(prev) < 2 THEN <<>> ELSE SubSeq(prev, 1, Len(prev) - 2)
RollbackHead(prev) == IF prev = <<>> THEN <<>> ELSE Tail(prev)
SubmittedNot(prev, content) == prev
GrowPrepends(am, text) == text \o am
GrowReplaces(am, text) == text
AppendTextForgets(buffer, text) == text
AppendTextSwapped(buffer, text) == text \o buffer
PushBackDrops(line, rest) == rest
SetLastAppends(prev, content) == Append(prev, Assistant(content))
SkipsCommentsOnly(line) == StartsWith(line, <<":">>) \/ Trim(line) = <<>>
SkipsUnknownOnly(line) ==
  /\ ~(StartsWith(line, <<":">>) \/ Trim(line) = <<>>)
  /\ ~StartsWith(line, Chars("data: "))

\* The guard of sendMessage: !input.trim() || isLoading
Rejects(inp, loading) == Trim(inp) = <<>> \/ loading

\* prev.slice(0, -1)
Rollback(prev) == IF prev = <<>> THEN <<>> ELSE SubSeq(prev, 1, Len(prev) - 1)

\* The updater of the submit: [...prev, { role: "user", content: userMessage }]
Submitted(prev, content) == Append(prev, User(content))

\* assistantMessage += content
Grow(am, text) == am \o text

\* The updater of the streaming setMessages: the last element is replaced.
SetLast(prev, content) ==
  IF prev = <<>> THEN prev ELSE [prev EXCEPT ![Len(prev)] = Assistant(content)]

\* textBuffer += decoder.decode(value, {stream: true})
AppendText(buffer, text) == buffer \o text

\* if (line.endsWith("\r")) line = line.slice(0, -1)
StripCR(line) == IF EndsWith(line, <<CR>>) THEN SliceTo(line, Len(line) - 1) ELSE line

\* The two `continue` tests of the inner loop.
Skipped(line) ==
  \/ StartsWith(line, <<":">>) \/ Trim(line) = <<>>
  \/ ~StartsWith(line, Chars("data: "))

\* line.slice(6).trim()
Payload(line) == Trim(SliceFrom(line, 6))

\* The catch of the inner try: textBuffer = line + "\n" + textBuffer
PushBack(line, rest) == line \o <<NL>> \o rest

Drained(buffer, am, msgs, done, failed) ==
  [textBuffer |-> buffer, assistantMessage |-> am, messages |-> msgs,
   streamDone |-> done, failed |-> failed]

RECURSIVE Drain(_, _, _)

\* A variant of AtDone that sets streamDone and goes on with the next line.
AtDoneContinues(rest, am, msgs) == [Drain(rest, am, msgs) EXCEPT !.streamDone = TRUE]

\* The branch of the [DONE] sentinel: streamDone = true; break
AtDone(rest, am, msgs) == Drained(rest, am, msgs, TRUE, FALSE)

\* A variant of Drain that takes one line per chunk (`if` for `while`).
DrainOneLine(buffer, am, msgs) ==
  IF IndexOfNewline(buffer) = NoIndex(buffer) THEN Drained(buffer, am, msgs, FALSE, FALSE)
  ELSE LET newlineIndex == IndexOfNewline(buffer)
           line == StripCR(SliceTo(buffer, newlineIndex))
           rest == SliceFrom(buffer, newlineIndex + 1)
       IN IF Skipped(line) THEN Drained(rest, am, msgs, FALSE, FALSE)
          ELSE LET jsonStr == Payload(line)
               IN IF jsonStr = Chars("[DONE]") THEN AtDone(rest, am, msgs)
                  ELSE LET parsed == JSONParse(jsonStr)
                           content == ContentOf(parsed.val)
                       IN IF ~parsed.ok \/ content.throws
                          THEN Drained(PushBack(line, rest), am, msgs, FALSE, TRUE)
                          ELSE IF Truthy(content.val)
                          THEN LET grown == Grow(am, ToStr(content.val))
                               IN Drained(rest, grown, SetLast(msgs, grown), FALSE, FALSE)
                          ELSE Drained(rest, am, msgs, FALSE, FALSE)

\* The inner while loop: lines are taken from the buffer until it holds no
\* newline, [DONE] is met, or a payload fails in the try block.
Drain(buffer, am, msgs) ==
  IF IndexOfNewline(buffer) = NoIndex(buffer) THEN Drained(buffer, am, msgs, FALSE, FALSE)
  ELSE LET newlineIndex == IndexOfNewline(buffer)
           line == StripCR(SliceTo(buffer, newlineIndex))
           rest == SliceFrom(buffer, newlineIndex + 1)
       IN IF Skipped(line) THEN Drain(rest, am, msgs)
          ELSE LET jsonStr == Payload(line)
               IN IF jsonStr = Chars("[DONE]") THEN AtDone(rest, am, msgs)
                  ELSE LET parsed == JSONParse(jsonStr)
                           content == ContentOf(parsed.val)
                       IN IF ~parsed.ok \/ content.throws
                          THEN Drained(PushBack(line, rest), am, msgs, FALSE, TRUE)
                          ELSE IF Truthy(content.val)
                          THEN LET grown == Grow(am, ToStr(content.val))
                               IN Drain(rest, grown, SetLast(msgs, grown))
                          ELSE Drain(rest, am, msgs)

\* No notice: toast() was not called (lines 72, 80 and 145 are the calls).
NoToast == "none"

\* -------------------------------------------------- the enquiry functions

\* null or undefined: no value.
Absent == "null"

\* The accounts, and the role the user_roles table gives each of them:
\* "u2" has no row there.
Users == {"u1", "u2", "emp", "adm"}
RoleOf(uid) ==
  CASE uid = "u1" -> "user"
    [] uid = "emp" -> "employee"
    [] uid = "adm" -> "admin"
    [] OTHER -> Absent

\* The Authorization header of a request: none, a token auth.getUser()
\* rejects, or the token of an account.
NoHeader == "none"
Tokens == {NoHeader, "bad"} \cup Users
GetUser(token) == IF token \in Users THEN token ELSE Absent

\* The enquiries table: "e1" and "e2" belong to accounts, "e3" is a guest's
\* (user_id is null); "e9" is a well-formed id with no row.
NoRow == [id |-> Absent, user_id |-> Absent, status |-> Absent]
EnquiryIds == {"e1", "e2", "e3"}
Uuids == EnquiryIds \cup {"e9"}
InitialEnquiries ==
  [eid \in EnquiryIds |->
     [id |-> eid,
      user_id |-> CASE eid = "e1" -> "u1" [] eid = "e2" -> "u2" [] OTHER -> Absent,
      status |-> "pending"]]

\* Request bodies: one that is not JSON, and JSON objects.
NoBody == [json |-> FALSE, enquiry_id |-> Absent, status |-> Absent, message |-> <<>>]
StatusBody(eid, value) ==
  [json |-> TRUE, enquiry_id |-> eid, status |-> value, message |-> <<>>]
MessageBody(eid, text) ==
  [json |-> TRUE, enquiry_id |-> eid, status |-> Absent, message |-> text]

StatusEnum == {"pending", "accepted", "rejected"}
statusUpdateSchema(body) ==
  /\ body.enquiry_id \in Uuids
  /\ body.status \in StatusEnum

MaxMessage == 2000
messageSchema(body) ==
  /\ body.enquiry_id \in Uuids
  /\ Len(Trim(body.message)) \in 1..MaxMessage

UpdateBodies ==
  {NoBody}
    \cup {StatusBody(eid, value) : eid \in Uuids, value \in {"accepted", "pending"}}
    \cup {StatusBody("x", "accepted"), StatusBody("e1", "done")}
MessageBodies ==
  {NoBody}
    \cup {MessageBody(eid, Chars(" hi")) : eid \in Uuids}
    \cup {MessageBody("x", Chars(" hi")), MessageBody("e1", Chars(" "))}

UpdateEnquiryStatus == "update-enquiry-status"
SendMessage == "send-message"

\* The tables as they are now.
Tables ==
  [enquiries |-> enquiries,
   enquiry_messages |-> enquiry_messages,
   notifications |-> notifications]

NoResponse == [status |-> 0, error |-> ""]

\* No request has arrived yet.
FnIdle ==
  [fn |-> "none", method |-> "none", step |-> "idle", body |-> NoBody,
   token |-> NoHeader, user |-> Absent, role |-> Absent, enquiry |-> NoRow,
   response |-> NoResponse,
   before |-> [enquiries |-> InitialEnquiries,
               enquiry_messages |-> <<>>,
               notifications |-> <<>>]]

EdgeIdle ==
  /\ fnCall = FnIdle
  /\ fnCalls = 0
  /\ enquiries = InitialEnquiries
  /\ enquiry_messages = <<>>
  /\ notifications = <<>>

\* The relay before its first request.
NoResp == [status |-> 0, hasBody |-> FALSE]
RelayIdle ==
  /\ relayPc = "idle"
  /\ credential = "missing"
  /\ upstreamCalls = 0
  /\ upstreamResp = NoResp
  /\ answered = 0
  /\ upstream = <<>>
  /\ forwarded = <<>>
  /\ served = 0

Init ==
  /\ RelayIdle
  /\ EdgeIdle
  /\ messages = <<>>
  /\ input = <<>>
  /\ isLoading = FALSE
  /\ pc = "idle"
  /\ userMessage = <<>>
  /\ assistantMessage = <<>>
  /\ textBuffer = <<>>
  /\ held = <<>>
  /\ wire = <<>>
  /\ split = FALSE
  /\ sent = NoStream
  /\ pre = <<>>
  /\ toast = NoToast
  /\ requests = 0
  /\ submits = 0
  /\ lastOp = "init"

Locals == <<userMessage, assistantMessage, textBuffer, held, wire, split, sent>>

\* onChange of the input field, which is disabled while isLoading.
TypeInput ==
  /\ ~isLoading
  /\ \E v \in Inputs : v # input /\ input' = v
  /\ lastOp' = "type"
  /\ UNCHANGED <<messages, isLoading, pc, Locals, pre, toast, requests, submits, Relay, Edge>>

\* A call of sendMessage that returns at its guard.
SendMessageNoop ==
  /\ Rejects(input, isLoading)
  /\ lastOp' = "sendMessage:noop"
  /\ UNCHANGED <<messages, input, isLoading, pc, Locals, pre, toast, requests, submits, Relay, Edge>>

\* A call of sendMessage that passes its guard, up to the first await.
SendMessageAccept ==
  /\ ~Rejects(input, isLoading)
  /\ submits < MaxTurns
  /\ userMessage' = Trim(input)
  /\ input' = <<>>
  /\ messages' = Submitted(messages, Trim(input))
  /\ isLoading' = TRUE
  /\ pc' = "getSession"
  /\ pre' = messages
  /\ submits' = submits + 1
  /\ lastOp' = "sendMessage"
  /\ assistantMessage' = <<>>
  /\ textBuffer' = <<>>
  /\ held' = <<>>
  /\ wire' = <<>>
  /\ split' = FALSE
  /\ sent' = NoStream
  /\ toast' = NoToast
  /\ UNCHANGED <<requests, Relay, Edge>>

\* A variant of Caught without the finally block.
CaughtNoFinally(op) ==
  /\ toast' = "Error"
  /\ messages' = Rollback(messages)
  /\ isLoading' = isLoading
  /\ pc' = "idle"
  /\ lastOp' = op

\* The outer catch followed by finally.
Caught(op) ==
  /\ toast' = "Error"
  /\ messages' = Rollback(messages)
  /\ isLoading' = FALSE
  /\ pc' = "idle"
  /\ lastOp' = op

\* getSession resolves with a session: the request is issued.
GetSessionOk ==
  /\ pc = "getSession"
  /\ pc' = "fetch"
  /\ requests' = requests + 1
  /\ lastOp' = "getSession"
  /\ UNCHANGED <<messages, input, isLoading, Locals, pre, toast, submits, Relay, Edge>>

\* getSession resolves without a session: throw new Error("Not authenticated")
GetSessionNone ==
  /\ pc = "getSession"
  /\ Caught("getSession:none")
  /\ UNCHANGED <<input, Locals, pre, requests, submits, Relay, Edge>>

\* fetch rejects.
FetchReject ==
  /\ pc = "fetch"
  /\ Caught("fetch:reject")
  /\ UNCHANGED <<input, Locals, pre, requests, submits, Relay, Edge>>

\* A variant of FetchLimited that throws instead of returning.
FetchLimitedThrows ==
  /\ pc = "fetch"
  /\ \E status \in Statuses \cap {429, 402} :
       Caught(IF status = 429 THEN "fetch:429" ELSE "fetch:402")
  /\ UNCHANGED <<input, Locals, pre, requests, submits, Relay, Edge>>

\* fetch resolves with status 429 or 402: a notice, return, finally.
FetchLimited ==
  /\ pc = "fetch"
  /\ \E status \in Statuses \cap {429, 402} :
       /\ toast' = (IF status = 429 THEN "Rate Limit" ELSE "Payment Required")
       /\ lastOp' = (IF status = 429 THEN "fetch:429" ELSE "fetch:402")
  /\ isLoading' = FALSE
  /\ pc' = "idle"
  /\ UNCHANGED <<messages, input, Locals, pre, requests, submits, Relay, Edge>>

\* A variant of FetchFailed that issues the request again.
FetchFailedRetries ==
  /\ pc = "fetch"
  /\ \E status \in Statuses \ {429, 402}, hasBody \in BOOLEAN :
       ~RespOk(status) \/ ~hasBody
  /\ requests' = requests + 1
  /\ lastOp' = "fetch:failed"
  /\ UNCHANGED <<messages, input, isLoading, pc, Locals, pre, toast, submits, Relay, Edge>>

\* fetch resolves with another status that is not ok, or without a body.
FetchFailed ==
  /\ pc = "fetch"
  /\ \E status \in Statuses \ {429, 402}, hasBody \in BOOLEAN :
       ~RespOk(status) \/ ~hasBody
  /\ Caught("fetch:failed")
  /\ UNCHANGED <<input, Locals, pre, requests, submits, Relay, Edge>>

\* A variant of FetchOk that leaves the assistant message to the first delta.
FetchOkLazy(streams) ==
  /\ pc = "fetch"
  /\ \E st \in Statuses \ {429, 402}, s \in streams :
       /\ RespOk(st)
       /\ sent' = s
       /\ wire' = Body(s)
  /\ assistantMessage' = <<>>
  /\ textBuffer' = <<>>
  /\ held' = <<>>
  /\ split' = FALSE
  /\ pc' = "read"
  /\ lastOp' = "fetch:ok"
  /\ UNCHANGED <<messages, input, isLoading, userMessage, pre, toast, requests, submits, Relay, Edge>>

\* fetch resolves ok with a body: the reader and the locals are set up and
\* the empty assistant message is appended.
FetchOk(streams) ==
  /\ pc = "fetch"
  /\ \E status \in Statuses \ {429, 402}, s \in streams :
       /\ RespOk(status)
       /\ sent' = s
       /\ wire' = Body(s)
  /\ assistantMessage' = <<>>
  /\ textBuffer' = <<>>
  /\ held' = <<>>
  /\ split' = FALSE
  /\ messages' = Append(messages, Assistant(<<>>))
  /\ pc' = "read"
  /\ lastOp' = "fetch:ok"
  /\ UNCHANGED <<input, isLoading, userMessage, pre, toast, requests, submits, Relay, Edge>>

\* reader.read() resolves with a chunk: one pass of the outer loop.  (The
\* one-element sets bind the decoded text and the result of the inner loop.)
ReadChunk ==
  /\ pc = "read"
  /\ \E n \in 1..Len(wire) :
       \E decoded \in {Utf8Decode(held \o SubSeq(wire, 1, n))} :
       \E d \in {Drain(AppendText(textBuffer, decoded.text), assistantMessage, messages)} :
          /\ wire' = SubSeq(wire, n + 1, Len(wire))
          /\ split' = (split \/ (n < Len(wire) /\ ~d.streamDone
                                  /\ (d.textBuffer # <<>> \/ decoded.held # <<>>)))
          /\ held' = decoded.held
          /\ textBuffer' = d.textBuffer
          /\ assistantMessage' = d.assistantMessage
          /\ messages' = d.messages
          /\ isLoading' = ~d.streamDone
          /\ pc' = (IF d.streamDone THEN "idle" ELSE "read")
          /\ lastOp' = (IF d.streamDone THEN "read:DONE"
                        ELSE IF d.failed THEN "read:deferred" ELSE "read:chunk")
  /\ UNCHANGED <<input, userMessage, sent, pre, toast, requests, submits, Relay, Edge>>

\* A variant of ReadEnd that decodes what is left in the buffer as a last
\* line.
ReadEndFlushes ==
  /\ pc = "read"
  /\ \E d \in {Drain(AppendText(textBuffer, <<NL>>), assistantMessage, messages)} :
       /\ textBuffer' = d.textBuffer
       /\ assistantMessage' = d.assistantMessage
       /\ messages' = d.messages
  /\ isLoading' = FALSE
  /\ pc' = "idle"
  /\ lastOp' = "read:eof"
  /\ UNCHANGED <<input, userMessage, held, wire, split, sent, pre, toast, requests, submits, Relay, Edge>>

\* A variant of ReadEnd that takes the end of the body for a failure.
ReadEndRollsBack ==
  /\ pc = "read"
  /\ Caught("read:eof")
  /\ UNCHANGED <<input, Locals, pre, requests, submits, Relay, Edge>>

\* reader.read() resolves with done, the body having ended after the bytes
\* read so far: break, finally.
ReadEnd ==
  /\ pc = "read"
  /\ isLoading' = FALSE
  /\ pc' = "idle"
  /\ lastOp' = "read:eof"
  /\ UNCHANGED <<messages, input, Locals, pre, toast, requests, submits, Relay, Edge>>

\* reader.read() rejects.
ReadError ==
  /\ pc = "read"
  /\ Caught("read:error")
  /\ UNCHANGED <<input, Locals, pre, requests, submits, Relay, Edge>>

FetchOkSession == FetchOk(SessionStreams)

Next ==
  \/ TypeInput
  \/ SendMessageNoop
  \/ SendMessageAccept
  \/ GetSessionOk
  \/ GetSessionNone
  \/ FetchReject
  \/ FetchLimited
  \/ FetchFailed
  \/ FetchOkSession
  \/ ReadChunk
  \/ ReadEnd
  \/ ReadError

\* A session: any number of turns up to MaxTurns.
Spec == Init /\ [][Next]_vars

\* One response being read: the state after the user submitted "a", the
\* session was found and fetch resolved ok with one of Streams.
InitStream ==
  /\ RelayIdle
  /\ EdgeIdle
  /\ messages = <<User(<<"a">>), Assistant(<<>>)>>
  /\ input = <<>>
  /\ isLoading = TRUE
  /\ pc = "read"
  /\ userMessage = <<"a">>
  /\ assistantMessage = <<>>
  /\ textBuffer = <<>>
  /\ held = <<>>
  /\ sent \in Streams
  /\ wire = Body(sent)
  /\ split = FALSE
  /\ pre = <<>>
  /\ toast = NoToast
  /\ requests = 1
  /\ submits = 1
  /\ lastOp = "fetch:ok"

NextStream ==
  \/ ReadChunk
  \/ ReadEnd
  \/ ReadError

SpecStream == InitStream /\ [][NextStream]_vars

\* ------------------------------------------------------------------ relay

\* The Relay Forwarder (the function behind <relay-endpoint>), after the
\* specification, section 4.3: the caller's credential is checked, then one
\* request goes to the upstream completion provider, whose answer is mapped
\* to the caller's status; a successful body is passed on as it arrives.

\* The state of the chat page.
Client ==
  <<messages, input, isLoading, pc, userMessage, assistantMessage, textBuffer,
    held, wire, split, sent, pre, toast, requests, submits, lastOp>>

Credentials == {"missing", "invalid", "valid"}
UpstreamStatuses == {200, 400, 402, 429, 500}
Unauthenticated == 401
UpstreamError == 500

\* A request arrives.
RelayReceive ==
  /\ relayPc = "idle"
  /\ served < MaxRequests
  /\ credential' \in Credentials
  /\ relayPc' = "auth"
  /\ upstreamCalls' = 0
  /\ upstreamResp' = NoResp
  /\ answered' = 0
  /\ upstream' = <<>>
  /\ forwarded' = <<>>
  /\ served' = served + 1
  /\ UNCHANGED <<Client, Edge>>

\* A variant of RelayUnauthenticated that asks upstream before it answers.
RelayUnauthenticatedLate ==
  /\ relayPc = "auth"
  /\ credential # "valid"
  /\ answered' = Unauthenticated
  /\ upstreamCalls' = upstreamCalls + 1
  /\ relayPc' = "idle"
  /\ UNCHANGED <<credential, upstreamResp, upstream, forwarded, served, Client, Edge>>

\* Authentication failure: Unauthenticated, no upstream call made.
RelayUnauthenticated ==
  /\ relayPc = "auth"
  /\ credential # "valid"
  /\ answered' = Unauthenticated
  /\ relayPc' = "idle"
  /\ UNCHANGED <<credential, upstreamCalls, upstreamResp, upstream, forwarded, served, Client, Edge>>

\* The credential is good: the upstream request is made.
RelayForward ==
  /\ relayPc = "auth"
  /\ credential = "valid"
  /\ upstreamCalls' = upstreamCalls + 1
  /\ relayPc' = "upstream"
  /\ UNCHANGED <<credential, upstreamResp, answered, upstream, forwarded, served, Client, Edge>>

\* A variant of UpstreamLimited that answers as for any other failure.
UpstreamLimitedAsError ==
  /\ relayPc = "upstream"
  /\ \E s \in UpstreamStatuses \cap {429, 402} :
       /\ upstreamResp' = [status |-> s, hasBody |-> FALSE]
       /\ answered' = UpstreamError
  /\ relayPc' = "idle"
  /\ UNCHANGED <<credential, upstreamCalls, upstream, forwarded, served, Client, Edge>>

\* Upstream answers 429 or 402: the status is passed on, without a retry.
UpstreamLimited ==
  /\ relayPc = "upstream"
  /\ \E s \in UpstreamStatuses \cap {429, 402} :
       /\ upstreamResp' = [status |-> s, hasBody |-> FALSE]
       /\ answered' = s
  /\ relayPc' = "idle"
  /\ UNCHANGED <<credential, upstreamCalls, upstream, forwarded, served, Client, Edge>>

\* Upstream answers another status that is not a success, or without a
\* body: UpstreamError.
UpstreamFailed ==
  /\ relayPc = "upstream"
  /\ \E s \in UpstreamStatuses \ {429, 402}, hasBody \in BOOLEAN :
       /\ ~RespOk(s) \/ ~hasBody
       /\ upstreamResp' = [status |-> s, hasBody |-> hasBody]
  /\ answered' = UpstreamError
  /\ relayPc' = "idle"
  /\ UNCHANGED <<credential, upstreamCalls, upstream, forwarded, served, Client, Edge>>

\* Upstream answers a success with a body: the caller gets the status and
\* the body is passed on as it arrives.
UpstreamOk ==
  /\ relayPc = "upstream"
  /\ \E s \in UpstreamStatuses \ {429, 402}, b \in SessionStreams :
       /\ RespOk(s)
       /\ upstreamResp' = [status |-> s, hasBody |-> TRUE]
       /\ answered' = s
       /\ upstream' = Body(b)
  /\ relayPc' = "piping"
  /\ UNCHANGED <<credential, upstreamCalls, forwarded, served, Client, Edge>>

\* Bytes of the upstream body arrive and are sent to the caller.
RelayPipe ==
  /\ relayPc = "piping"
  /\ \E n \in 1..Len(upstream) :
       /\ forwarded' = forwarded \o SubSeq(upstream, 1, n)
       /\ upstream' = SubSeq(upstream, n + 1, Len(upstream))
  /\ UNCHANGED <<relayPc, credential, upstreamCalls, upstreamResp, answered, served, Client, Edge>>

\* The upstream body ends (or breaks off) and the response is closed.
RelayClose ==
  /\ relayPc = "piping"
  /\ relayPc' = "idle"
  /\ UNCHANGED <<credential, upstreamCalls, upstreamResp, answered, upstream, forwarded, served, Client, Edge>>

NextRelay ==
  \/ RelayReceive
  \/ RelayUnauthenticated
  \/ RelayForward
  \/ UpstreamLimited
  \/ UpstreamFailed
  \/ UpstreamOk
  \/ RelayPipe
  \/ RelayClose

\* The relay serving requests one after the other, up to MaxRequests.
SpecRelay == Init /\ [][NextRelay]_vars

\* ------------------------------------------------- update-enquiry-status

\* A request as it arrives.
Received(fn, method, body, token) ==
  [fn |-> fn, method |-> method, step |-> "received", body |-> body,
   token |-> token, user |-> Absent, role |-> Absent, enquiry |-> NoRow,
   response |-> NoResponse, before |-> Tables]

\* The handler returns a response.
Respond(call, code, error) ==
  [call EXCEPT !.step = "done", !.response = [status |-> code, error |-> error]]

\* The row with this id, as a client that is shown every row finds it.
Lookup(eid) == IF eid \in DOMAIN enquiries THEN enquiries[eid] ELSE NoRow

Staff == {"admin", "employee"}

\* A preflight request is answered at once.
UesPreflight ==
  /\ fnCall.step \in {"idle", "done"}
  /\ fnCalls < MaxCalls
  /\ fnCall' = Respond(Received(UpdateEnquiryStatus, "OPTIONS", NoBody, NoHeader), 200, "")
  /\ fnCalls' = fnCalls + 1
  /\ UNCHANGED <<enquiries, enquiry_messages, notifications, Client, Relay>>

UesReceive ==
  /\ fnCall.step \in {"idle", "done"}
  /\ fnCalls < MaxCalls
  /\ \E body \in UpdateBodies, token \in Tokens :
       fnCall' = Received(UpdateEnquiryStatus, "POST", body, token)
  /\ fnCalls' = fnCalls + 1
  /\ UNCHANGED <<enquiries, enquiry_messages, notifications, Client, Relay>>

\* req.json() and the schema.
UesValidate ==
  /\ fnCall.fn = UpdateEnquiryStatus
  /\ fnCall.step = "received"
  /\ fnCall' =
       IF ~fnCall.body.json THEN Respond(fnCall, 500, "Unexpected token")
       ELSE IF ~statusUpdateSchema(fnCall.body) THEN Respond(fnCall, 400, "Invalid input")
       ELSE [fnCall EXCEPT !.step = "validated"]
  /\ UNCHANGED <<fnCalls, enquiries, enquiry_messages, notifications, Client, Relay>>

\* The Authorization header and auth.getUser(token).
UesAuthenticate ==
  /\ fnCall.fn = UpdateEnquiryStatus
  /\ fnCall.step = "validated"
  /\ fnCall' =
       IF fnCall.token = NoHeader THEN Respond(fnCall, 500, "No authorization header")
       ELSE IF GetUser(fnCall.token) = Absent THEN Respond(fnCall, 500, "Not authenticated")
       ELSE [fnCall EXCEPT !.step = "authenticated", !.user = GetUser(fnCall.token)]
  /\ UNCHANGED <<fnCalls, enquiries, enquiry_messages, notifications, Client, Relay>>

\* A variant of UesAuthorize that lets every account with a role row pass.
UesAuthorizeAnyRole ==
  /\ fnCall.fn = UpdateEnquiryStatus
  /\ fnCall.step = "authenticated"
  /\ \E roleData \in {RoleOf(fnCall.user)} :
       fnCall' =
         IF roleData = Absent
         THEN Respond([fnCall EXCEPT !.role = roleData], 403, "Unauthorized")
         ELSE [fnCall EXCEPT !.step = "authorized", !.role = roleData]
  /\ UNCHANGED <<fnCalls, enquiries, enquiry_messages, notifications, Client, Relay>>

\* The caller's role, read with the service-role client.
UesAuthorize ==
  /\ fnCall.fn = UpdateEnquiryStatus
  /\ fnCall.step = "authenticated"
  /\ \E roleData \in {RoleOf(fnCall.user)} :
       fnCall' =
         IF roleData = Absent \/ roleData \notin Staff
         THEN Respond([fnCall EXCEPT !.role = roleData], 403, "Unauthorized")
         ELSE [fnCall EXCEPT !.step = "authorized", !.role = roleData]
  /\ UNCHANGED <<fnCalls, enquiries, enquiry_messages, notifications, Client, Relay>>

\* update({status}).eq('id', enquiry_id).select('*').single(): with no such
\* row single() reports an error, which is thrown and is not an Error.
UesUpdate ==
  /\ fnCall.fn = UpdateEnquiryStatus
  /\ fnCall.step = "authorized"
  /\ IF fnCall.body.enquiry_id \in DOMAIN enquiries
     THEN /\ enquiries' =
               [enquiries EXCEPT ![fnCall.body.enquiry_id].status = fnCall.body.status]
          /\ fnCall' =
               [fnCall EXCEPT !.step = "updated",
                              !.enquiry = enquiries'[fnCall.body.enquiry_id]]
     ELSE /\ fnCall' = Respond(fnCall, 500, "Unknown error")
          /\ UNCHANGED enquiries
  /\ UNCHANGED <<fnCalls, enquiry_messages, notifications, Client, Relay>>

\* notifications.user_id is NOT NULL: a row without it is refused.
NotificationAccepted(row) == row.user_id # Absent

\* The notification for the enquiry's user; the outcome of the insert is
\* not looked at.  Then the response.
UesNotify ==
  /\ fnCall.fn = UpdateEnquiryStatus
  /\ fnCall.step = "updated"
  /\ \E row \in {[user_id |-> fnCall.enquiry.user_id,
                  type |-> IF fnCall.body.status = "accepted"
                           THEN "enquiry_accepted" ELSE "enquiry_rejected",
                  related_id |-> fnCall.body.enquiry_id]} :
       notifications' =
         IF NotificationAccepted(row) THEN Append(notifications, row) ELSE notifications
  /\ fnCall' = Respond(fnCall, 200, "")
  /\ UNCHANGED <<fnCalls, enquiries, enquiry_messages, Client, Relay>>

\* ------------------------------------------------------------ send-message

SmPreflight ==
  /\ fnCall.step \in {"idle", "done"}
  /\ fnCalls < MaxCalls
  /\ fnCall' = Respond(Received(SendMessage, "OPTIONS", NoBody, NoHeader), 200, "")
  /\ fnCalls' = fnCalls + 1
  /\ UNCHANGED <<enquiries, enquiry_messages, notifications, Client, Relay>>

SmReceive ==
  /\ fnCall.step \in {"idle", "done"}
  /\ fnCalls < MaxCalls
  /\ \E body \in MessageBodies, token \in Tokens :
       fnCall' = Received(SendMessage, "POST", body, token)
  /\ fnCalls' = fnCalls + 1
  /\ UNCHANGED <<enquiries, enquiry_messages, notifications, Client, Relay>>

\* req.json() and the schema.
SmValidate ==
  /\ fnCall.fn = SendMessage
  /\ fnCall.step = "received"
  /\ fnCall' =
       IF ~fnCall.body.json THEN Respond(fnCall, 500, "Unexpected token")
       ELSE IF ~messageSchema(fnCall.body) THEN Respond(fnCall, 400, "Invalid input")
       ELSE [fnCall EXCEPT !.step = "validated"]
  /\ UNCHANGED <<fnCalls, enquiries, enquiry_messages, notifications, Client, Relay>>

\* The Authorization header and auth.getUser(token).
SmAuthenticate ==
  /\ fnCall.fn = SendMessage
  /\ fnCall.step = "validated"
  /\ fnCall' =
       IF fnCall.token = NoHeader THEN Respond(fnCall, 500, "No authorization header")
       ELSE IF GetUser(fnCall.token) = Absent THEN Respond(fnCall, 500, "Not authenticated")
       ELSE [fnCall EXCEPT !.step = "authenticated", !.user = GetUser(fnCall.token)]
  /\ UNCHANGED <<fnCalls, enquiries, enquiry_messages, notifications, Client, Relay>>

\* A variant of SmAuthorize that does not compare the enquiry's user_id with
\* the caller.
SmAuthorizeAnyOwner ==
  /\ fnCall.fn = SendMessage
  /\ fnCall.step = "authenticated"
  /\ \E roleData \in {Absent, RoleOf(fnCall.user)},
        enquiry \in {NoRow, Lookup(fnCall.body.enquiry_id)} :
       \E senderRole \in {IF roleData = Absent THEN "user" ELSE roleData} :
         fnCall' =
           IF senderRole = "user" /\ enquiry = NoRow
           THEN Respond([fnCall EXCEPT !.role = senderRole, !.enquiry = enquiry],
                        403, "Unauthorized")
           ELSE [fnCall EXCEPT !.step = "authorized", !.role = senderRole,
                               !.enquiry = enquiry]
  /\ UNCHANGED <<fnCalls, enquiries, enquiry_messages, notifications, Client, Relay>>

\* The caller's role and the enquiry, read with the client that carries the
\* anonymous key: the policies of the database decide which rows that client
\* is shown, so either lookup may find nothing.  A sender taken to be a
\* 'user' must own the enquiry.
SmAuthorize ==
  /\ fnCall.fn = SendMessage
  /\ fnCall.step = "authenticated"
  /\ \E roleData \in {Absent, RoleOf(fnCall.user)},
        enquiry \in {NoRow, Lookup(fnCall.body.enquiry_id)} :
       \E senderRole \in {IF roleData = Absent THEN "user" ELSE roleData} :
         fnCall' =
           IF senderRole = "user" /\ (enquiry = NoRow \/ enquiry.user_id # fnCall.user)
           THEN Respond([fnCall EXCEPT !.role = senderRole, !.enquiry = enquiry],
                        403, "Unauthorized")
           ELSE [fnCall EXCEPT !.step = "authorized", !.role = senderRole,
                               !.enquiry = enquiry]
  /\ UNCHANGED <<fnCalls, enquiries, enquiry_messages, notifications, Client, Relay>>

\* The message row.  enquiry_messages.enquiry_id references enquiries, and
\* the policies may refuse the insert: the error is thrown and is not an
\* Error.
SmInsert ==
  /\ fnCall.fn = SendMessage
  /\ fnCall.step = "authorized"
  /\ \E accepted \in BOOLEAN :
       IF accepted /\ fnCall.body.enquiry_id \in DOMAIN enquiries
       THEN /\ enquiry_messages' =
                 Append(enquiry_messages,
                        [enquiry_id |-> fnCall.body.enquiry_id,
                         sender_id |-> fnCall.user,
                         sender_role |-> fnCall.role,
                         message |-> Trim(fnCall.body.message)])
            /\ fnCall' = [fnCall EXCEPT !.step = "inserted"]
       ELSE /\ fnCall' = Respond(fnCall, 500, "Unknown error")
            /\ UNCHANGED enquiry_messages
  /\ UNCHANGED <<fnCalls, enquiries, notifications, Client, Relay>>

\* The notification for the enquiry's user when staff sent the message; the
\* outcome of the insert is not looked at.  Then the response.
SmNotify ==
  /\ fnCall.fn = SendMessage
  /\ fnCall.step = "inserted"
  /\ \E notifyUserId \in {IF fnCall.role = "user" THEN Absent
                          ELSE fnCall.enquiry.user_id},
        accepted \in BOOLEAN :
       notifications' =
         IF notifyUserId # Absent /\ accepted
         THEN Append(notifications,
                     [user_id |-> notifyUserId, type |-> "new_message",
                      related_id |-> fnCall.body.enquiry_id])
         ELSE notifications
  /\ fnCall' = Respond(fnCall, 200, "")
  /\ UNCHANGED <<fnCalls, enquiries, enquiry_messages, Client, Relay>>

NextFunctions ==
  \/ UesPreflight
  \/ UesReceive
  \/ UesValidate
  \/ UesAuthenticate
  \/ UesAuthorize
  \/ UesUpdate
  \/ UesNotify
  \/ SmPreflight
  \/ SmReceive
  \/ SmValidate
  \/ SmAuthenticate
  \/ SmAuthorize
  \/ SmInsert
  \/ SmNotify

\* The two functions serving requests one after the other, up to MaxCalls.
SpecFunctions == Init /\ [][NextFunctions]_vars

\* ------------------------------------------------------------------ properties

\* The content of the last message of the transcript.
LastContent == IF messages = <<>> THEN <<>> ELSE messages[Len(messages)].content

\* The bytes of the body read so far, and their text.
Delivered == SubSeq(Body(sent), 1, Len(Body(sent)) - Len(wire))
DeliveredText == Utf8Decode(Delivered).text

\* The text of the first n lines of a body.
LinesText(frames, n) == Utf8Decode(Body(SubSeq(frames, 1, n))).text

\* The result of the inner loop when the bytes arrive as one chunk.
OneChunk(bytes) == Drain(Utf8Decode(bytes).text, <<>>, <<Assistant(<<>>)>>)

\* The text a line of the body carries at choices[0].delta.content.
FrameDelta(kind) ==
  CASE kind = "deltaX" -> <<"X">>
    [] kind = "deltaE" -> <<EAcute>>
    [] OTHER -> <<>>

\* The data lines whose payload is not a JSON object.
Unparseable == {"head", "null"}

\* The index of the first line of a kind in kinds, or Len(frames) + 1.
FirstOf(frames, kinds) ==
  IF \E i \in 1..Len(frames) : frames[i] \in kinds
  THEN CHOOSE i \in 1..Len(frames) :
         frames[i] \in kinds /\ \A j \in 1..(i - 1) : frames[j] \notin kinds
  ELSE Len(frames) + 1

\* The deltas of the first n lines, in order.
RECURSIVE Deltas(_, _)
Deltas(frames, n) ==
  IF n = 0 THEN <<>> ELSE Deltas(frames, n - 1) \o FrameDelta(frames[n])

DeltasBeforeDone(frames) == Deltas(frames, FirstOf(frames, {"done"}) - 1)

\* The read loop ended without an error.
Finished == lastOp \in {"read:DONE", "read:eof"}

\* C1: chunking-invariance.  When the read loop has ended on a body whose
\* data lines are complete JSON objects or [DONE], however the bytes read
\* were split into chunks, the assistant message holds what it holds when
\* the same bytes arrive as a single chunk.
C1_ChunkingInvariance ==
  (Finished /\ \A i \in 1..Len(sent) : sent[i] \notin Unparseable)
    => LastContent = OneChunk(Delivered).assistantMessage

C1_Witness ==
  /\ lastOp = "read:eof"
  /\ sent = <<"deltaE", "deltaX">>
  /\ wire = <<>>
  /\ split
  /\ LastContent = <<EAcute, "X">>

\* C2: a JSON object split by a newline, 'data: {"choices":[{"delta"' and
\* ':{"content":"X"}}]}', is reassembled: once both lines were read in two
\* or more chunks the assistant message holds "X".
C2_SplitReassembled ==
  (sent = <<"head", "tail">> /\ wire = <<>> /\ split
     /\ lastOp # "read:error")
    => LastContent = <<"X">>

\* C3: when the payload of a data line fails in the try block, the line and
\* a newline are put back in front of the rest of the buffer, so the buffer
\* is the text read from that line on; no later line is decoded, the
\* transcript holds the deltas of the lines before it, and the outer catch
\* is not entered (no notice, no rollback, still pending, still reading).
C3_ParseFailurePushedBack ==
  lastOp = "read:deferred" =>
    LET b == FirstOf(sent, Unparseable)
    IN /\ b <= Len(sent)
       /\ textBuffer = SubSeq(DeliveredText, Len(LinesText(sent, b - 1)) + 1,
                              Len(DeliveredText))
       /\ StartsWith(textBuffer, FrameLine(sent[b]) \o <<NL>>)
       /\ messages = <<User(userMessage), Assistant(Deltas(sent, b - 1))>>
       /\ toast = NoToast
       /\ isLoading
       /\ pc = "read"

C3_Witness ==
  /\ lastOp = "read:deferred"
  /\ sent = <<"head", "deltaX">>
  /\ wire = <<>>
  /\ split

\* The step is a call of sendMessage.
Called == lastOp' \in {"sendMessage", "sendMessage:noop"}

\* C4: a call of sendMessage while isLoading is true changes neither the
\* transcript, the input nor isLoading, and issues no request.
C4_NoopWhilePending ==
  [][(isLoading /\ Called) =>
       /\ lastOp' = "sendMessage:noop"
       /\ UNCHANGED <<messages, input, isLoading, pc, requests, submits, toast>>]_vars

C4_Witness == isLoading /\ pc = "fetch" /\ lastOp = "sendMessage:noop"

\* C5: a call of sendMessage with an empty or white-space-only input
\* appends nothing, leaves isLoading as it is and issues no request; every
\* user message of the transcript has a non-empty content without white
\* space at its ends.
UserMessagesTrimmed ==
  \A i \in 1..Len(messages) :
    messages[i].role = "user" =>
      messages[i].content # <<>> /\ Trim(messages[i].content) = messages[i].content

C5_BlankInputNoop ==
  [][/\ (Trim(input) = <<>> /\ Called) =>
          /\ lastOp' = "sendMessage:noop"
          /\ UNCHANGED <<messages, input, isLoading, pc, requests, submits>>
     /\ UserMessagesTrimmed']_vars

C5_Witness ==
  /\ ~isLoading
  /\ lastOp = "sendMessage:noop"
  /\ input = <<" ">>
  /\ messages # <<>>

\* C6: while the session lookup or the relay request of a submission is
\* outstanding, the transcript is the one before the submission followed by
\* its user message, the input is empty and isLoading is true.
C6_SubmitBeforeRequest ==
  pc \in {"getSession", "fetch"} =>
    /\ messages = Append(pre, User(userMessage))
    /\ input = <<>>
    /\ isLoading

C6_Witness == pc = "fetch" /\ pre # <<>> /\ requests = submits

\* C7: after a response with status 429 or 402 the transcript is the one
\* before the submission followed by the user message.
C7_LimitedKeepsUserMessage ==
  lastOp \in {"fetch:429", "fetch:402"} =>
    /\ messages = Append(pre, User(userMessage))
    /\ ~isLoading
    /\ pc = "idle"

C7_Witness == lastOp = "fetch:402" /\ Len(pre) = 2 /\ toast = "Payment Required"

\* C8: after a read failure the transcript is the one before the submission
\* followed by the user message, whatever was streamed before the failure.
C8_ReadFailureRollsBack ==
  lastOp = "read:error" =>
    /\ messages = Append(pre, User(userMessage))
    /\ ~isLoading

C8_Witness ==
  /\ lastOp = "read:error"
  /\ assistantMessage = <<"X">>
  /\ pre # <<>>

\* C9: once the line [DONE] is decoded the read loop is over: the handler
\* is no longer reading, the assistant message holds the deltas of the
\* lines before the first [DONE] only, and the text read after that line
\* is left in the buffer.
C9_DoneEndsLoop ==
  lastOp = "read:DONE" =>
    LET d == FirstOf(sent, {"done"})
    IN /\ d <= Len(sent)
       /\ LastContent = Deltas(sent, d - 1)
       /\ textBuffer = SubSeq(DeliveredText, Len(LinesText(sent, d)) + 1,
                              Len(DeliveredText))
       /\ pc = "idle"
       /\ ~isLoading

C9_Witness ==
  /\ lastOp = "read:DONE"
  /\ sent = <<"deltaX", "done", "deltaE">>
  /\ wire = <<>>
  /\ LastContent = <<"X">>

\* The data lines of a body are well formed and the last one is [DONE].
WellFormedToDone(frames) ==
  /\ frames # <<>>
  /\ frames[Len(frames)] = "done"
  /\ \A i \in 1..Len(frames) : frames[i] \in {"deltaX", "deltaE", "role", "empty", "done"}

\* C10: when a body of well-formed data lines ended by [DONE] was read, the
\* read loop ended at [DONE] and the assistant message is the concatenation,
\* in order, of the deltas of the lines before the first [DONE].
C10_DeltasInOrder ==
  (Finished /\ WellFormedToDone(sent) /\ (wire = <<>> \/ lastOp = "read:DONE"))
    => /\ lastOp = "read:DONE"
       /\ LastContent = DeltasBeforeDone(sent)

C10_Witness ==
  /\ lastOp = "read:DONE"
  /\ sent = <<"deltaX", "deltaE", "done">>
  /\ split
  /\ LastContent = <<"X", EAcute>>

\* The lines of a body that are neither comments nor blank.
StripIdle(frames) == SelectSeq(frames, LAMBDA k : k \notin {"comment", "blank"})

\* The body was read to its end or to [DONE], without a read failure.
ReadThrough == lastOp # "read:error" /\ (wire = <<>> \/ lastOp = "read:DONE")

\* C11: comment lines and blank lines between the lines of a body change
\* nothing: when the body was read, the transcript and the way the loop
\* ended are those of the body without its comment and blank lines.
C11_CommentsIgnored ==
  ReadThrough =>
    LET o == OneChunk(Body(StripIdle(sent)))
    IN /\ messages = <<User(userMessage), Assistant(o.assistantMessage)>>
       /\ (lastOp = "read:DONE") = o.streamDone

C11_Witness ==
  /\ lastOp = "read:DONE"
  /\ sent = <<"comment", "deltaX", "blank", "done">>
  /\ split
  /\ LastContent = <<"X">>

\* The line of a kind as the inner loop sees it.
LineText(kind) == StripCR(Utf8Decode(FrameLine(kind)).text)

\* Every data line of the body carries [DONE] or a payload that JSON.parse
\* accepts.
PayloadsParse(frames) ==
  \A i \in 1..Len(frames) :
    \/ Skipped(LineText(frames[i]))
    \/ Payload(LineText(frames[i])) = Chars("[DONE]")
    \/ JSONParse(Payload(LineText(frames[i]))).ok

\* C12: a data line whose payload parses as JSON and carries no text at
\* choices[0].delta.content adds nothing, raises nothing and does not stop
\* the decoding: when a body whose payloads all parse was read, no line is
\* left deferred and the assistant message is the concatenation of the
\* deltas before the first [DONE].
C12_NoTextNoDelta ==
  (ReadThrough /\ PayloadsParse(sent)) =>
    /\ lastOp # "read:deferred"
    /\ toast = NoToast
    /\ LastContent = DeltasBeforeDone(sent)

\* The lines of a body that start with 'data: ', with ':' or are blank.
StripUnknown(frames) == SelectSeq(frames, LAMBDA k : k \notin {"event", "nospace"})

\* C13: a line that is not a comment, not blank and does not start with
\* 'data: ' is dropped: when the body was read, the transcript and the way
\* the loop ended are those of the body without such lines.
C13_UnknownLinesDropped ==
  ReadThrough =>
    LET o == OneChunk(Body(StripUnknown(sent)))
    IN /\ messages = <<User(userMessage), Assistant(o.assistantMessage)>>
       /\ (lastOp = "read:DONE") = o.streamDone

C13_Witness ==
  /\ lastOp = "read:DONE"
  /\ sent = <<"nospace", "deltaE", "done">>
  /\ split
  /\ LastContent = <<EAcute>>

\* C14: a handler that is suspended holds isLoading, so that no second
\* call passes the guard while it runs; the message being streamed is the
\* last of the transcript and the only one after the user message of the
\* running submission, and no message is open when no body is being read.
C14_OneOpenMessage ==
  /\ pc # "idle" => isLoading
  /\ pc = "read" =>
       messages = pre \o <<User(userMessage), Assistant(assistantMessage)>>
  /\ pc \in {"getSession", "fetch"} =>
       messages = pre \o <<User(userMessage)>>

C14_Witness ==
  /\ pc = "read"
  /\ Len(pre) = 2
  /\ pre[2].role = "assistant"
  /\ assistantMessage = <<"X">>
  /\ lastOp = "sendMessage:noop"

IsPrefix(a, b) == Len(a) <= Len(b) /\ SubSeq(b, 1, Len(a)) = a

\* C15: a step of the read loop leaves the length of the transcript as it
\* is and replaces the content of the last message, if at all, by a longer
\* text that starts with the previous content; once the loop has ended
\* normally the handler has returned and reads no further chunk.
C15_ContentOnlyGrows ==
  [][/\ (pc = "read" /\ lastOp' # "read:error") =>
          /\ Len(messages') = Len(messages)
          /\ SubSeq(messages', 1, Len(messages) - 1) = SubSeq(messages, 1, Len(messages) - 1)
          /\ messages'[Len(messages')].role = "assistant"
          /\ IsPrefix(LastContent, LastContent')
          /\ (messages' # messages => Len(LastContent') > Len(LastContent))
          /\ LastContent' = assistantMessage'
     /\ Finished' => (pc' = "idle" /\ ~isLoading')]_vars

C15_Witness ==
  /\ lastOp = "read:chunk"
  /\ sent = <<"deltaX", "deltaE", "done">>
  /\ split
  /\ wire # <<>>
  /\ LastContent = <<"X", EAcute>>

\* The outcomes of a submission that failed.
Failures ==
  {"getSession:none", "fetch:reject", "fetch:429", "fetch:402", "fetch:failed",
   "read:error"}

\* C16: a request is issued only by the step that follows the session
\* lookup of an accepted submission, that lookup is entered only by an
\* accepted call of sendMessage, and a failure ends the handler without a
\* further request; so a submission issues at most one request and, the
\* handler being single, no two requests are in flight.
C16_OneRequestPerSubmit ==
  [][/\ requests' # requests =>
          (requests' = requests + 1 /\ pc = "getSession" /\ pc' = "fetch")
     /\ (pc' = "getSession" /\ pc # "getSession") =>
          (lastOp' = "sendMessage" /\ submits' = submits + 1 /\ pc = "idle")
     /\ (pc' = "fetch" /\ pc # "fetch") => pc = "getSession"
     /\ lastOp' \in Failures => (pc' = "idle" /\ requests' = requests)
     /\ requests' <= submits']_vars

C16_Witness ==
  /\ lastOp = "fetch:failed"
  /\ submits = 2
  /\ requests = 2
  /\ pc = "idle"

\* C17: when the read loop has ended at [DONE] or at the end of the body,
\* isLoading is false, the handler has returned without a notice, and the
\* transcript still ends with the assistant message, which holds the text
\* streamed so far.
C17_NormalEndKeepsMessage ==
  Finished =>
    /\ ~isLoading
    /\ pc = "idle"
    /\ toast = NoToast
    /\ messages = pre \o <<User(userMessage), Assistant(assistantMessage)>>
    /\ assistantMessage = OneChunk(Delivered).assistantMessage

C17_Witness ==
  /\ lastOp = "read:eof"
  /\ sent = <<"deltaX", "deltaX", "done">>
  /\ textBuffer # <<>>
  /\ LastContent = <<"X">>

\* C18: every failure is handled in sendMessage: the step in which it
\* occurs shows a notice and ends the handler with isLoading false; and
\* whenever isLoading is false, a call with a text in the input is accepted.
C18_FailuresHandled ==
  [][/\ lastOp' \in Failures =>
          /\ ~isLoading'
          /\ pc' = "idle"
          /\ toast' \in {"Error", "Rate Limit", "Payment Required"}
     /\ (~isLoading /\ Trim(input) # <<>> /\ Called) =>
          /\ lastOp' = "sendMessage"
          /\ isLoading'
          /\ pc' = "getSession"
          /\ messages' = Append(messages, User(Trim(input)))]_vars

C18_Witness ==
  /\ lastOp = "read:error"
  /\ submits = 2
  /\ Len(pre) = 1
  /\ ~isLoading

\* The relay has answered the current request.
Answered == served > 0 /\ relayPc \in {"idle", "piping"}

\* C19: a request whose credential is missing or invalid is answered with
\* 401 and no request is made to the upstream provider for it.
C19_UnauthenticatedNoUpstream ==
  (served > 0 /\ credential # "valid") =>
    /\ upstreamCalls = 0
    /\ upstreamResp = NoResp
    /\ forwarded = <<>>
    /\ relayPc \in {"auth", "idle"}
    /\ relayPc = "idle" => answered = Unauthenticated

C19_Witness ==
  /\ served = 2
  /\ credential = "invalid"
  /\ relayPc = "idle"
  /\ answered = Unauthenticated

\* The caller's status for an upstream answer.
MappedStatus(resp) ==
  IF resp.status \in {429, 402} THEN resp.status
  ELSE IF RespOk(resp.status) /\ resp.hasBody THEN resp.status
  ELSE 500

\* C20: once upstream has answered, the caller's status is 429 for 429, 402
\* for 402 and 500 for any other failure or a missing body, and exactly one
\* upstream request was made for the request.
C20_UpstreamStatusMapped ==
  (Answered /\ upstreamResp # NoResp) =>
    /\ answered = MappedStatus(upstreamResp)
    /\ upstreamCalls = 1
    /\ credential = "valid"

C20_Witness ==
  /\ served = 2
  /\ relayPc = "idle"
  /\ upstreamResp = [status |-> 200, hasBody |-> FALSE]
  /\ answered = 500
  /\ upstreamCalls = 1

\* The first line of a text that holds a newline, as the inner loop takes it.
FirstLine(text) == StripCR(SliceTo(text, IndexOfNewline(text)))

\* The try block fails on a line: JSON.parse throws or parsed is null.
FailsInTry(line) ==
  \/ ~JSONParse(Payload(line)).ok
  \/ ContentOf(JSONParse(Payload(line)).val).throws

\* C21 as stated: whenever the loop is suspended on reader.read() the text
\* buffer holds no newline.
C21_NoNewlineWhenSuspended == pc = "read" => ~HasNewline(textBuffer)

\* C21 as amended: whenever the loop is suspended on reader.read() and the
\* text buffer holds a newline, the buffer begins with a data line, not
\* [DONE], on which the try block fails (the line that was put back).
C21_DrainedOrDeferred ==
  (pc = "read" /\ HasNewline(textBuffer)) =>
    /\ ~Skipped(FirstLine(textBuffer))
    /\ Payload(FirstLine(textBuffer)) # Chars("[DONE]")
    /\ FailsInTry(FirstLine(textBuffer))

C21_Witness ==
  /\ pc = "read"
  /\ sent = <<"null", "deltaX">>
  /\ wire = <<>>
  /\ HasNewline(textBuffer)
  /\ LastContent = <<>>

\* C22: a successful response appends one assistant message with an empty
\* content before any chunk is read; while the body is read and after the
\* loop has ended normally, the transcript is the earlier one, the user
\* message and that one assistant message, whose content is what the lines
\* read so far give (empty when they give no delta).
C22_OneAssistantPerStream ==
  /\ lastOp = "fetch:ok" =>
       /\ messages = pre \o <<User(userMessage), Assistant(<<>>)>>
       /\ wire = Body(sent)
       /\ pc = "read"
  /\ (pc = "read" \/ Finished) =>
       /\ Len(messages) = Len(pre) + 2
       /\ SubSeq(messages, 1, Len(pre)) = pre
       /\ messages[Len(pre) + 1] = User(userMessage)
       /\ messages[Len(pre) + 2] = Assistant(OneChunk(Delivered).assistantMessage)

C22_Witness ==
  /\ lastOp = "read:eof"
  /\ Len(pre) = 2
  /\ Delivered # <<>>
  /\ messages[4] = Assistant(<<>>)
  /\ messages[2] = Assistant(<<"X">>)

\* The length of a text up to and including its last newline.
ThroughLastNewline(text) ==
  IF HasNewline(text)
  THEN CHOOSE i \in 1..Len(text) :
         text[i] = NL /\ \A j \in (i + 1)..Len(text) : text[j] # NL
  ELSE 0

\* The complete lines of the text read so far, and the text after them.
CompleteLines == SubSeq(DeliveredText, 1, ThroughLastNewline(DeliveredText))
PartialLine ==
  SubSeq(DeliveredText, ThroughLastNewline(DeliveredText) + 1, Len(DeliveredText))

\* C23: the text after the last newline read so far is at the end of the
\* buffer, unchanged (it is the whole buffer unless a line was put back or
\* [DONE] was met), and the transcript is what the complete lines alone
\* give: the text without its newline is not decoded.
C23_PartialLineKept ==
  (pc = "read" \/ Finished) =>
    /\ EndsWith(textBuffer, PartialLine)
    /\ lastOp \in {"fetch:ok", "read:chunk"} => textBuffer = PartialLine
    /\ LastContent = Drain(CompleteLines, <<>>, <<Assistant(<<>>)>>).assistantMessage

C23_Witness ==
  /\ pc = "read"
  /\ lastOp = "read:chunk"
  /\ sent = <<"deltaE", "deltaX">>
  /\ LastContent = <<EAcute>>
  /\ split
  /\ Len(textBuffer) > 6
  /\ textBuffer = PartialLine

\* C24: when the reader reports the end of the body while the buffer holds
\* text, the handler returns: the transcript, the buffer and the assistant
\* text are left as they are, no notice is shown and isLoading is cleared.
C24_EndLeavesBuffer ==
  [][(pc = "read" /\ lastOp' = "read:eof" /\ textBuffer # <<>>) =>
       /\ messages' = messages
       /\ textBuffer' = textBuffer
       /\ assistantMessage' = assistantMessage
       /\ toast' = NoToast
       /\ ~isLoading'
       /\ pc' = "idle"]_vars

C24_Witness ==
  /\ lastOp = "read:eof"
  /\ sent = <<"deltaX">>
  /\ textBuffer = FrameLine("deltaX")
  /\ messages = <<User(userMessage), Assistant(<<>>)>>
  /\ ~isLoading

\* The failures that occur before the assistant message is appended.
EarlyFailures == {"getSession:none", "fetch:reject", "fetch:failed"}

\* C25: after a failure that occurs before the assistant message was
\* appended, the transcript is the one before the submission followed by
\* the user message.
C25_EarlyFailureKeepsUserMessage ==
  lastOp \in EarlyFailures => messages = Append(pre, User(userMessage))

\* C26: a data line that fails to parse does not block the lines after it:
\* when a body without [DONE] was read to its end, the assistant message
\* holds the deltas of all its lines, those after a failed line included.
C26_FailedLineDoesNotBlock ==
  (lastOp = "read:eof" /\ wire = <<>> /\ FirstOf(sent, {"done"}) > Len(sent)) =>
    LastContent = Deltas(sent, Len(sent))

\* C27: every assistant message of the transcript comes right after a user
\* message.
C27_AssistantFollowsUser ==
  \A i \in 1..Len(messages) :
    messages[i].role = "assistant" => (i > 1 /\ messages[i - 1].role = "user")

C27_Witness ==
  /\ lastOp = "read:DONE"
  /\ Len(messages) = 3
  /\ messages[2].role = "user"
  /\ messages[3] = Assistant(<<"X">>)

\* C28: the transcript that existed when the latest submission was made is
\* a prefix of the transcript in every later state, and after that
\* submission at most its user message and its assistant message follow.
C28_EarlierTurnsKept ==
  /\ IsPrefix(pre, messages)
  /\ Len(messages) <= Len(pre) + 2

C28_Witness ==
  /\ lastOp = "fetch:failed"
  /\ Len(pre) = 2
  /\ pre[2] = Assistant(<<"X">>)
  /\ messages = pre

\* What the function answers when the token does not resolve to a user.
AuthErrors == {"No authorization header", "Not authenticated"}
AuthFailed == fnCall.response.status = 500 /\ fnCall.response.error \in AuthErrors

\* The three checks of the request being handled, as the request's own
\* contents and the user_roles table decide them.
UesValid == fnCall.body.json /\ statusUpdateSchema(fnCall.body)
Resolved == GetUser(fnCall.token) # Absent
IsStaff == RoleOf(GetUser(fnCall.token)) \in Staff

\* C29: update-enquiry-status changes an enquiry and inserts a notification
\* only for a request whose body is valid, whose token resolves to a user and
\* whose user is admin or employee, the checks being made in this order (the
\* first one that fails decides the response); a request answered 400, 500
\* for authentication or 403 leaves every table as it was.
C29_UpdateAfterChecks ==
  (fnCall.fn = UpdateEnquiryStatus /\ fnCall.method = "POST") =>
    /\ Tables # fnCall.before =>
         /\ UesValid /\ Resolved /\ IsStaff
         /\ fnCall.step \in {"updated", "done"}
         /\ Lookup(fnCall.body.enquiry_id).status = fnCall.body.status
    /\ fnCall.step \in {"authenticated", "authorized", "updated"} => UesValid /\ Resolved
    /\ fnCall.step \in {"authorized", "updated"} => IsStaff
    /\ fnCall.step = "done" =>
         /\ (fnCall.body.json /\ ~UesValid) <=> fnCall.response.status = 400
         /\ (UesValid /\ ~Resolved) <=> AuthFailed
         /\ (UesValid /\ Resolved /\ ~IsStaff) <=> fnCall.response.status = 403
    /\ (fnCall.response.status \in {400, 403} \/ AuthFailed) => Tables = fnCall.before

\* C29 witness: a member of staff set the status of an enquiry and its user
\* was notified.
C29_Witness ==
  /\ fnCall.fn = UpdateEnquiryStatus
  /\ fnCall.response.status = 200
  /\ IsStaff
  /\ enquiries # fnCall.before.enquiries
  /\ Len(notifications) = Len(fnCall.before.notifications) + 1

\* The caller of the request being handled has the role 'user' or no role
\* row.
CallerIsUser == fnCall.user # Absent /\ RoleOf(fnCall.user) \in {"user", Absent}

\* The caller owns the enquiry the request names.
OwnsEnquiry == Lookup(fnCall.body.enquiry_id).user_id = fnCall.user

\* C30: in send-message a caller with the role 'user' or with no role row
\* inserts a message only for an enquiry of their own; for a missing enquiry
\* or somebody else's the answer is 403 and no message and no notification is
\* inserted; a notification is inserted only when the sender is not a 'user'
\* and the enquiry has a user_id.
C30_OwnEnquiryOnly ==
  (fnCall.fn = SendMessage /\ fnCall.method = "POST") =>
    /\ (CallerIsUser /\ enquiry_messages # fnCall.before.enquiry_messages) => OwnsEnquiry
    /\ (CallerIsUser /\ ~OwnsEnquiry /\ fnCall.step # "authenticated") =>
         /\ fnCall.step = "done"
         /\ fnCall.response.status = 403
         /\ Tables = fnCall.before
    /\ notifications # fnCall.before.notifications =>
         /\ fnCall.role # "user"
         /\ ~CallerIsUser
         /\ Lookup(fnCall.body.enquiry_id).user_id # Absent

\* C30 witness: a 'user' sent a message on their own enquiry.
C30_Witness ==
  /\ fnCall.fn = SendMessage
  /\ fnCall.response.status = 200
  /\ CallerIsUser
  /\ OwnsEnquiry
  /\ Len(enquiry_messages) = Len(fnCall.before.enquiry_messages) + 1
  /\ notifications = fnCall.before.notifications

====
